---- MODULE Spec2Model ----
(***************************************************************************)
(* Image platform of the OpenEPaperLink integration                        *)
(* (custom_components/open_epaper_link/image.py).                          *)
(*                                                                         *)
(* The model covers the entity registrar (async_setup_entry and its inner  *)
(* callback async_add_image_entity), the image entity (available,          *)
(* async_image, async_added_to_hass, _handle_blacklist_update), the hub    *)
(* state the entity reads, and the dispatcher connections the file makes.  *)
(***************************************************************************)
EXTENDS Integers, FiniteSets, Sequences, TLC

\* ------------------------------------------------------------------------
\* Identifiers, topics and listeners
\* ------------------------------------------------------------------------

\* The access-point identifier tested by async_add_image_entity.
AP == "ap"

\* Tag identifiers of the model: the access point and two tags.
TagMacs == {AP, "t1", "t2"}

\* const.DOMAIN (a reserved word here, hence Domain) and const.SIGNAL_TAG_IMAGE_UPDATE, used to build topic names.
Domain == "open_epaper_link"
SIGNAL_TAG_IMAGE_UPDATE == "open_epaper_link_tag_image_update"

\* A topic is <<prefix, suffix>>: the f-strings of the source.
\* The registrar's callback connected to the blacklist topic.
SignalTagDiscovered_BlacklistTopic == <<Domain, "_blacklist_update">>

SignalTagDiscovered == <<Domain, "_tag_discovered">>
SignalConnectionStatus == <<Domain, "_connection_status">>
SignalBlacklistUpdate == <<Domain, "_blacklist_update">>
\* The image topic without the identifier suffix.
SignalImageUpdate_NoSuffix(tag_mac) == <<SIGNAL_TAG_IMAGE_UPDATE, "">>

SignalImageUpdate(tag_mac) == <<SIGNAL_TAG_IMAGE_UPDATE, tag_mac>>

\* A listener is <<owner, method>>; the registrar's callback is owned by
\* the config entry.
ENTRY == "entry"
TargetAddImageEntity == <<ENTRY, "async_add_image_entity">>
TargetWriteState(tag_mac) == <<tag_mac, "async_write_ha_state">>
TargetBlacklistUpdate(tag_mac) == <<tag_mac, "_handle_blacklist_update">>

\* Cap on the async_add_entities calls counted per identifier.
MaxAddCalls == 2

VARIABLES
    online,          \* hub.online
    tags,            \* hub.tags
    blacklist,       \* hub.get_blacklisted_tags()
    setup_pc,        \* config entry: "not_loaded", "loaded", "unloaded"
    added_entities,  \* the tracking set of async_setup_entry
    add_calls,       \* per identifier, entities handed to async_add_entities
    setup_skipped,   \* identifiers enumerated at setup and not given an entity
    dispatcher,      \* connections <<signal, target>> of the dispatcher
    entry_on_unload, \* connections released by the entry's unload handlers
    entity,          \* per identifier: "absent", "pending", "attached", "removed"
    on_remove,       \* per entity, connections released by its on-remove handlers
    published,       \* per entity, availability last written to the host
    event,           \* the operation of the last step, <<name, argument>>
    wrote,           \* per entity, async_write_ha_state calls of the last step
    avail_result,    \* value returned by the last query of available
    files,           \* per image path: "absent", "unreadable" or the bytes
    image_path,      \* per entity, _image_path (None is <<>>)
    img_pc,          \* per entity, async_image: "idle", "executor", "awaiting"
    job_result,      \* per entity, outcome of the executor job
    img_return,      \* per entity, what the last async_image call returned
    fs_ops,          \* file-system operations made, <<operation, context>>
    returned_none,   \* per entity, whether some async_image call returned None
    logged,          \* errors logged by the last step
    resolved         \* get_image_path calls of the last step

hubvars == <<online, tags, blacklist>>
regvars == <<setup_pc, added_entities, add_calls, setup_skipped, entry_on_unload>>
loadvars == <<setup_pc, setup_skipped>>
entvars == <<entity, on_remove, published>>
imgvars == <<files, image_path, img_pc, job_result, img_return, fs_ops,
             returned_none>>
vars == <<online, tags, blacklist, setup_pc, added_entities, add_calls,
          setup_skipped, dispatcher, entry_on_unload, entity, on_remove,
          published, event, wrote, avail_result, files, image_path, img_pc,
          job_result, img_return, fs_ops, returned_none, logged, resolved>>

NoWrites == [t \in TagMacs |-> 0]

\* The part of the state the code of image.py reads and writes, as one record
\* passed through the operators that model its functions.
State ==
    [added |-> added_entities, calls |-> add_calls, ent |-> entity,
     disp |-> dispatcher, unload |-> entry_on_unload,
     remove |-> on_remove, pub |-> published, writes |-> NoWrites]

\* ------------------------------------------------------------------------
\* OpenEPaperLinkImageEntity
\* ------------------------------------------------------------------------

\* available answered from the state last written, when there is one.
Available_Cached(tag_mac) ==
    IF published[tag_mac] # "unknown" THEN published[tag_mac] = "available"
    ELSE online /\ tag_mac \in tags /\ tag_mac \notin blacklist

\* available: the and-chain of the property, evaluated left to right on the
\* hub's current state.
Available(tag_mac) ==
    IF ~online THEN FALSE
    ELSE IF tag_mac \notin tags THEN FALSE
    ELSE tag_mac \notin blacklist

\* async_write_ha_state: the entity reads its properties and hands the state
\* to the host.
AsyncWriteHaState(tag_mac, st) ==
    [st EXCEPT !.pub[tag_mac] =
                   IF Available(tag_mac) THEN "available" ELSE "unavailable",
               !.writes[tag_mac] = @ + 1]

\* _handle_blacklist_update removing a blacklisted entity (self.async_remove()).
HandleBlacklistUpdate_Removes(tag_mac, st) ==
    IF tag_mac \in blacklist
    THEN [st EXCEPT !.ent[tag_mac] = "removed",
                    !.disp = @ \ st.remove[tag_mac],
                    !.remove[tag_mac] = {}]
    ELSE AsyncWriteHaState(tag_mac, st)

\* _handle_blacklist_update doing nothing.
HandleBlacklistUpdate_NoWrite(tag_mac, st) == st

\* _handle_blacklist_update: only refreshes the state.
HandleBlacklistUpdate(tag_mac, st) ==
    AsyncWriteHaState(tag_mac, st)

\* async_dispatcher_connect(signal, target) wrapped in async_on_remove.
ConnectOnRemove(tag_mac, conn, st) ==
    [st EXCEPT !.disp = @ \cup {conn}, !.remove[tag_mac] = @ \cup {conn}]

\* async_added_to_hass with the blacklist connection not wrapped in
\* async_on_remove.
AsyncAddedToHass_BlacklistNotReleased(tag_mac, st) ==
    LET s1 == ConnectOnRemove(tag_mac,
                  <<SignalImageUpdate(tag_mac), TargetWriteState(tag_mac)>>, st)
        s2 == ConnectOnRemove(tag_mac,
                  <<SignalConnectionStatus, TargetWriteState(tag_mac)>>, s1)
    IN [s2 EXCEPT !.disp = @ \cup
           {<<SignalBlacklistUpdate, TargetBlacklistUpdate(tag_mac)>>}]

\* async_added_to_hass: the three connections of the entity.
AsyncAddedToHass(tag_mac, st) ==
    LET s1 == ConnectOnRemove(tag_mac,
                  <<SignalImageUpdate(tag_mac), TargetWriteState(tag_mac)>>, st)
        s2 == ConnectOnRemove(tag_mac,
                  <<SignalConnectionStatus, TargetWriteState(tag_mac)>>, s1)
    IN ConnectOnRemove(tag_mac,
           <<SignalBlacklistUpdate, TargetBlacklistUpdate(tag_mac)>>, s2)

\* f"{DOMAIN}.{tag_mac}", the key async_image resolves its path from.
ImageKey(tag_mac) == <<Domain, ".", tag_mac>>

\* util.get_image_path: a path derived deterministically from the key.
GetImagePath(key) == <<"image_path", key>>

\* The unset _image_path.
None == <<>>

\* The paths of the tags' images, and the bytes a file may hold.
ImagePaths == {GetImagePath(ImageKey(t)) : t \in TagMacs \ {AP}}
ImageBytes == {"img1", "img2"}

\* os.path.exists
PathExists(path, fs) == fs[path] # "absent"

\* A read that returns the same bytes whatever the file holds.
OpenRead_FixedBytes(path, fs) ==
    IF fs[path] \in ImageBytes THEN "img1" ELSE "OSError"

\* open(path, "rb").read(): the bytes, or OSError when the file is missing or
\* cannot be read.
OpenRead(path, fs) ==
    IF fs[path] \in ImageBytes THEN fs[path] ELSE "OSError"

\* async_image without the existence check.
AsyncImageCall_NoExistsCheck(tag_mac, fs, ist) ==
    [ist EXCEPT !.path = IF @ = None THEN GetImagePath(ImageKey(tag_mac)) ELSE @,
                !.ret = "pending", !.pc = "executor"]

\* async_image remembering an earlier None and answering it again.
AsyncImageCall_StickyNone(tag_mac, fs, ist) ==
    LET path == IF ist.path = None THEN GetImagePath(ImageKey(tag_mac))
                ELSE ist.path
        s1 == [ist EXCEPT !.path = path,
                          !.res = IF ist.path = None THEN @ + 1 ELSE @,
                          !.ops = @ \cup {<<"exists", "event_loop">>}]
    IN IF ist.ret = "None" \/ ~PathExists(path, fs)
       THEN [s1 EXCEPT !.ret = "None", !.pc = "idle"]
       ELSE [s1 EXCEPT !.ret = "pending", !.pc = "executor"]

\* async_image resolving the path on every call.
AsyncImageCall_AlwaysResolves(tag_mac, fs, ist) ==
    LET path == GetImagePath(ImageKey(tag_mac))
        s1 == [ist EXCEPT !.path = path,
                          !.res = @ + 1,
                          !.ops = @ \cup {<<"exists", "event_loop">>}]
    IN IF ~PathExists(path, fs)
       THEN [s1 EXCEPT !.ret = "None", !.pc = "idle"]
       ELSE [s1 EXCEPT !.ret = "pending", !.pc = "executor"]

\* async_image up to its first suspension, on the image state
\* ist = [path, pc, job, ret, ops, log, res] of one entity: the path is
\* resolved once, a missing file returns None, otherwise the read is handed
\* to the executor.
AsyncImageCall(tag_mac, fs, ist) ==
    LET path == IF ist.path = None THEN GetImagePath(ImageKey(tag_mac))
                ELSE ist.path
        s1 == [ist EXCEPT !.path = path,
                          !.res = IF ist.path = None THEN @ + 1 ELSE @,
                          !.ops = @ \cup {<<"exists", "event_loop">>}]
    IN IF ~PathExists(path, fs)
       THEN [s1 EXCEPT !.ret = "None", !.pc = "idle"]
       ELSE [s1 EXCEPT !.ret = "pending", !.pc = "executor"]

\* The lambda run by the executor.
ExecutorRead(fs, ist) ==
    [ist EXCEPT !.job = OpenRead(ist.path, fs), !.pc = "awaiting",
                !.ops = @ \cup {<<"open_read", "executor">>}]

\* async_image without the except clause: the OSError reaches the caller.
AsyncImageResume_NoExcept(ist) ==
    [ist EXCEPT !.ret = IF ist.job = "OSError" THEN "raised" ELSE ist.job,
                !.pc = "idle", !.job = "none"]

\* async_image resumed with the job's outcome: the bytes are returned, an
\* OSError is logged and None returned.
AsyncImageResume(ist) ==
    IF ist.job = "OSError"
    THEN [ist EXCEPT !.ret = "None", !.log = @ + 1, !.pc = "idle",
                     !.job = "none"]
    ELSE [ist EXCEPT !.ret = ist.job, !.pc = "idle", !.job = "none"]

\* ------------------------------------------------------------------------
\* async_setup_entry and async_add_image_entity
\* ------------------------------------------------------------------------

\* async_add_entities([entity]): the host takes the new entity; it is
\* attached (async_added_to_hass) in a later step.
AsyncAddEntities(tag_mac, st) ==
    [st EXCEPT !.calls[tag_mac] = @ + 1,
               !.ent[tag_mac] = IF @ = "absent" THEN "pending" ELSE @]

\* The callback without the early return on a tracked identifier.
AsyncAddImageEntity_NoTrackingCheck(tag_mac, st) ==
    IF tag_mac = AP \/ tag_mac \in blacklist THEN st
    ELSE [AsyncAddEntities(tag_mac, st) EXCEPT !.added = @ \cup {tag_mac}]

\* The callback never recording the identifier in the tracking set.
AsyncAddImageEntity_NotTracked(tag_mac, st) ==
    IF tag_mac \in st.added THEN st
    ELSE IF tag_mac = AP \/ tag_mac \in blacklist THEN st
    ELSE AsyncAddEntities(tag_mac, st)

\* The callback without the test for the access point.
AsyncAddImageEntity_NoApCheck(tag_mac, st) ==
    IF tag_mac \in st.added THEN st
    ELSE IF tag_mac \in blacklist THEN st
    ELSE [AsyncAddEntities(tag_mac, st) EXCEPT !.added = @ \cup {tag_mac}]

\* The callback recording a skipped identifier in the tracking set.
AsyncAddImageEntity_TracksSkipped(tag_mac, st) ==
    IF tag_mac \in st.added THEN st
    ELSE IF tag_mac = AP \/ tag_mac \in blacklist
        THEN [st EXCEPT !.added = @ \cup {tag_mac}]
    ELSE [AsyncAddEntities(tag_mac, st) EXCEPT !.added = @ \cup {tag_mac}]

\* The callback recording a blacklisted identifier in the tracking set.
AsyncAddImageEntity_TracksBlacklisted(tag_mac, st) ==
    IF tag_mac \in st.added THEN st
    ELSE IF tag_mac = AP THEN st
    ELSE IF tag_mac \in blacklist THEN [st EXCEPT !.added = @ \cup {tag_mac}]
    ELSE [AsyncAddEntities(tag_mac, st) EXCEPT !.added = @ \cup {tag_mac}]

\* The inner callback of async_setup_entry.
AsyncAddImageEntity(tag_mac, st) ==
    IF tag_mac \in st.added THEN st
    ELSE IF tag_mac = AP \/ tag_mac \in blacklist THEN st
    ELSE [AsyncAddEntities(tag_mac, st) EXCEPT !.added = @ \cup {tag_mac}]

RECURSIVE AddKnownTags(_, _)

\* The enumeration leaving the loop after the first created entity.
AddKnownTags_StopsAfterFirst(todo, st) ==
    IF todo = {} \/ st.added # {} THEN st
    ELSE LET tag_mac == CHOOSE t \in todo : TRUE
         IN AddKnownTags(todo \ {tag_mac}, AsyncAddImageEntity(tag_mac, st))

\* for tag_mac in hub.tags: async_add_image_entity(tag_mac)
AddKnownTags(todo, st) ==
    IF todo = {} THEN st
    ELSE LET tag_mac == CHOOSE t \in todo : TRUE
         IN AddKnownTags(todo \ {tag_mac}, AsyncAddImageEntity(tag_mac, st))

\* The connection made without entry.async_on_unload.
ConnectOnUnload_NotRegistered(conn, st) ==
    [st EXCEPT !.disp = @ \cup {conn}]

\* entry.async_on_unload(async_dispatcher_connect(..._tag_discovered, ...))
ConnectOnUnload(conn, st) ==
    [st EXCEPT !.disp = @ \cup {conn}, !.unload = @ \cup {conn}]

\* The body of async_setup_entry: fresh tracking set, enumeration of
\* hub.tags, then the tag-discovered connection.
SetupEntry(st) ==
    ConnectOnUnload(<<SignalTagDiscovered, TargetAddImageEntity>>,
                    AddKnownTags(tags, [st EXCEPT !.added = {}]))

\* ------------------------------------------------------------------------
\* Dispatcher
\* ------------------------------------------------------------------------

Targets(signal, disp) == {c[2] : c \in {d \in disp : d[1] = signal}}

\* One listener called with the notification's argument.
CallTarget(target, arg, st) ==
    IF target[2] = "async_add_image_entity" THEN AsyncAddImageEntity(arg, st)
    ELSE IF target[2] = "async_write_ha_state"
        THEN AsyncWriteHaState(target[1], st)
    ELSE HandleBlacklistUpdate(target[1], st)

\* async_dispatcher_send: every listener connected to the signal when the
\* notification is sent is called once.
RECURSIVE CallTargets(_, _, _)
CallTargets(todo, arg, st) ==
    IF todo = {} THEN st
    ELSE LET target == CHOOSE t \in todo : TRUE
         IN CallTargets(todo \ {target}, arg, CallTarget(target, arg, st))

DispatcherSend(signal, arg, st) ==
    CallTargets(Targets(signal, st.disp), arg, st)

\* ------------------------------------------------------------------------
\* Actions
\* ------------------------------------------------------------------------

\* A step that neither queries available nor logs.
NoResult ==
    /\ avail_result' = FALSE
    /\ logged' = 0
    /\ resolved' = 0

\* The step's effect on the variables written by image.py.
Becomes(st) ==
    /\ added_entities' = st.added
    /\ add_calls' = st.calls
    /\ entity' = st.ent
    /\ dispatcher' = st.disp
    /\ entry_on_unload' = st.unload
    /\ on_remove' = st.remove
    /\ published' = st.pub
    /\ wrote' = st.writes

AsyncSetupEntry ==
    /\ setup_pc = "not_loaded"
    /\ Becomes(SetupEntry(State))
    /\ setup_skipped' = {t \in tags : entity'[t] = "absent"}
    /\ setup_pc' = "loaded"
    /\ event' = <<"async_setup_entry", "">>
    /\ NoResult
    /\ UNCHANGED <<hubvars, imgvars>>

\* The entry's unload handlers run.
Unload ==
    /\ setup_pc = "loaded"
    /\ Becomes([State EXCEPT !.disp = @ \ entry_on_unload, !.unload = {}])
    /\ setup_pc' = "unloaded"
    /\ UNCHANGED setup_skipped
    /\ event' = <<"unload", "">>
    /\ NoResult
    /\ UNCHANGED <<hubvars, imgvars>>

\* The hub announces a tag on <domain>_tag_discovered.
TagDiscovered(tag_mac) ==
    /\ add_calls[tag_mac] < MaxAddCalls
    /\ Becomes(DispatcherSend(SignalTagDiscovered, tag_mac, State))
    /\ event' = <<"tag_discovered", tag_mac>>
    /\ NoResult
    /\ UNCHANGED <<hubvars, loadvars, imgvars>>

\* The hub announces a new image of a tag.
ImageUpdated(tag_mac) ==
    /\ Becomes(DispatcherSend(SignalImageUpdate(tag_mac), "", State))
    /\ event' = <<"image_update", tag_mac>>
    /\ NoResult
    /\ UNCHANGED <<hubvars, loadvars, imgvars>>

ConnectionStatus ==
    /\ Becomes(DispatcherSend(SignalConnectionStatus, "", State))
    /\ event' = <<"connection_status", "">>
    /\ NoResult
    /\ UNCHANGED <<hubvars, loadvars, imgvars>>

BlacklistUpdate ==
    /\ Becomes(DispatcherSend(SignalBlacklistUpdate, "", State))
    /\ event' = <<"blacklist_update", "">>
    /\ NoResult
    /\ UNCHANGED <<hubvars, loadvars, imgvars>>

\* The host attaches an entity it was handed.
AddedToHass(tag_mac) ==
    /\ entity[tag_mac] = "pending"
    /\ Becomes(AsyncAddedToHass(tag_mac,
                                [State EXCEPT !.ent[tag_mac] = "attached"]))
    /\ event' = <<"async_added_to_hass", tag_mac>>
    /\ NoResult
    /\ UNCHANGED <<hubvars, loadvars, imgvars>>

\* The host detaches an entity: its on-remove handlers run.
HostRemove(tag_mac) ==
    /\ entity[tag_mac] = "attached"
    /\ Becomes([State EXCEPT !.ent[tag_mac] = "removed",
                             !.disp = @ \ on_remove[tag_mac],
                             !.remove[tag_mac] = {}])
    /\ event' = <<"remove", tag_mac>>
    /\ NoResult
    /\ UNCHANGED <<hubvars, loadvars, imgvars>>

\* The host reads the available property of an entity.
QueryAvailable(tag_mac) ==
    /\ entity[tag_mac] \in {"pending", "attached"}
    /\ avail_result' = Available(tag_mac)
    /\ event' = <<"available", tag_mac>>
    /\ wrote' = NoWrites
    /\ logged' = 0
    /\ resolved' = 0
    /\ UNCHANGED <<hubvars, regvars, dispatcher, entvars, imgvars>>

\* The hub's state changes (hub.online, hub.tags, the blacklist).
HubChanged ==
    /\ event' = <<"hub", "">>
    /\ wrote' = NoWrites
    /\ NoResult
    /\ UNCHANGED <<regvars, dispatcher, entvars, imgvars>>

SetOnline(b) ==
    /\ online # b
    /\ online' = b
    /\ UNCHANGED <<tags, blacklist>>
    /\ HubChanged

TagAdded(tag_mac) ==
    /\ tag_mac \notin tags
    /\ tags' = tags \cup {tag_mac}
    /\ UNCHANGED <<online, blacklist>>
    /\ HubChanged

TagRemoved(tag_mac) ==
    /\ tag_mac \in tags
    /\ tags' = tags \ {tag_mac}
    /\ UNCHANGED <<online, blacklist>>
    /\ HubChanged

Blacklisted(tag_mac) ==
    /\ tag_mac \notin blacklist
    /\ blacklist' = blacklist \cup {tag_mac}
    /\ UNCHANGED <<online, tags>>
    /\ HubChanged

Unblacklisted(tag_mac) ==
    /\ tag_mac \in blacklist
    /\ blacklist' = blacklist \ {tag_mac}
    /\ UNCHANGED <<online, tags>>
    /\ HubChanged

\* The image state of one entity, and the step's effect on it.
ImageState(tag_mac) ==
    [path |-> image_path[tag_mac], pc |-> img_pc[tag_mac],
     job |-> job_result[tag_mac], ret |-> img_return[tag_mac],
     ops |-> fs_ops, log |-> 0, res |-> 0]

ImageBecomes(tag_mac, ist) ==
    /\ image_path' = [image_path EXCEPT ![tag_mac] = ist.path]
    /\ img_pc' = [img_pc EXCEPT ![tag_mac] = ist.pc]
    /\ job_result' = [job_result EXCEPT ![tag_mac] = ist.job]
    /\ img_return' = [img_return EXCEPT ![tag_mac] = ist.ret]
    /\ fs_ops' = ist.ops
    /\ returned_none' =
           [returned_none EXCEPT ![tag_mac] = @ \/ ist.ret = "None"]
    /\ logged' = ist.log
    /\ resolved' = ist.res
    /\ wrote' = NoWrites
    /\ avail_result' = FALSE
    /\ UNCHANGED <<hubvars, regvars, dispatcher, entvars, files>>

\* The host asks an attached entity for its image.
AsyncImage(tag_mac) ==
    /\ entity[tag_mac] = "attached"
    /\ img_pc[tag_mac] = "idle"
    /\ ImageBecomes(tag_mac, AsyncImageCall(tag_mac, files, ImageState(tag_mac)))
    /\ event' = <<"async_image", tag_mac>>

\* The executor runs the read job.
ExecutorJob(tag_mac) ==
    /\ img_pc[tag_mac] = "executor"
    /\ ImageBecomes(tag_mac, ExecutorRead(files, ImageState(tag_mac)))
    /\ event' = <<"executor_job", tag_mac>>

\* The awaiting async_image call is resumed and returns.
AsyncImageReturn(tag_mac) ==
    /\ img_pc[tag_mac] = "awaiting"
    /\ ImageBecomes(tag_mac, AsyncImageResume(ImageState(tag_mac)))
    /\ event' = <<"async_image_return", tag_mac>>

\* The image file of a tag is written, made unreadable or deleted.
FileSet(path, content) ==
    /\ files[path] # content
    /\ files' = [files EXCEPT ![path] = content]
    /\ event' = <<"file", "">>
    /\ wrote' = NoWrites
    /\ NoResult
    /\ UNCHANGED <<hubvars, regvars, dispatcher, entvars, image_path, img_pc,
                   job_result, img_return, fs_ops, returned_none>>

Init ==
    /\ online \in BOOLEAN
    /\ tags \in SUBSET TagMacs
    /\ blacklist \in SUBSET TagMacs
    /\ setup_pc = "not_loaded"
    /\ added_entities = {}
    /\ add_calls = [t \in TagMacs |-> 0]
    /\ setup_skipped = {}
    /\ dispatcher = {}
    /\ entry_on_unload = {}
    /\ entity = [t \in TagMacs |-> "absent"]
    /\ on_remove = [t \in TagMacs |-> {}]
    /\ published = [t \in TagMacs |-> "unknown"]
    /\ event = <<"init", "">>
    /\ wrote = NoWrites
    /\ avail_result = FALSE
    /\ files = [p \in ImagePaths |-> "absent"]
    /\ image_path = [t \in TagMacs |-> None]
    /\ img_pc = [t \in TagMacs |-> "idle"]
    /\ job_result = [t \in TagMacs |-> "none"]
    /\ img_return = [t \in TagMacs |-> "not_called"]
    /\ fs_ops = {}
    /\ returned_none = [t \in TagMacs |-> FALSE]
    /\ logged = 0
    /\ resolved = 0

Next ==
    \/ AsyncSetupEntry
    \/ Unload
    \/ \E tag_mac \in TagMacs : TagDiscovered(tag_mac)
    \/ \E tag_mac \in TagMacs : ImageUpdated(tag_mac)
    \/ ConnectionStatus
    \/ BlacklistUpdate
    \/ \E tag_mac \in TagMacs : AddedToHass(tag_mac)
    \/ \E tag_mac \in TagMacs : HostRemove(tag_mac)
    \/ \E tag_mac \in TagMacs : QueryAvailable(tag_mac)
    \/ \E b \in BOOLEAN : SetOnline(b)
    \/ \E tag_mac \in TagMacs : TagAdded(tag_mac)
    \/ \E tag_mac \in TagMacs : TagRemoved(tag_mac)
    \/ \E tag_mac \in TagMacs : Blacklisted(tag_mac)
    \/ \E tag_mac \in TagMacs : Unblacklisted(tag_mac)

Spec == Init /\ [][Next]_vars

\* The image accessor: entities are set up and attached for a hub that knows
\* its tags, then async_image calls interleave with changes of the files.
InitImage ==
    /\ Init
    /\ online
    /\ tags \in {{"t1"}, {AP, "t1", "t2"}}
    /\ blacklist = {}

NextImage ==
    \/ AsyncSetupEntry
    \/ \E tag_mac \in TagMacs : AddedToHass(tag_mac)
    \/ \E tag_mac \in TagMacs : HostRemove(tag_mac)
    \/ \E tag_mac \in TagMacs : AsyncImage(tag_mac)
    \/ \E tag_mac \in TagMacs : ExecutorJob(tag_mac)
    \/ \E tag_mac \in TagMacs : AsyncImageReturn(tag_mac)
    \/ \E path \in ImagePaths, content \in ImageBytes \cup {"absent", "unreadable"} :
           FileSet(path, content)

SpecImage == InitImage /\ [][NextImage]_vars

\* ------------------------------------------------------------------------
\* Properties
\* ------------------------------------------------------------------------

Eligible(tag_mac) == tag_mac # AP /\ tag_mac \notin blacklist

AvailableText(tag_mac) ==
    IF online /\ tag_mac \in tags /\ tag_mac \notin blacklist
    THEN "available" ELSE "unavailable"

Connections(tag_mac) == {c \in dispatcher : c[2][1] = tag_mac}

\* C1: whatever the startup enumeration, the tag-discovered notifications
\* and the hub's changes were, at most one image entity has been handed to
\* the host for any tag identifier.
C1_AtMostOneEntityPerTag ==
    \A t \in TagMacs : add_calls[t] <= 1

\* A tag that already has an attached entity is announced again.
C1_Witness ==
    \E t \in TagMacs :
        /\ event = <<"tag_discovered", t>>
        /\ setup_pc = "loaded"
        /\ entity[t] = "attached"
        /\ add_calls[t] = 1

\* C2: a query of available returns true exactly when the hub is online, the
\* identifier is in hub.tags and it is not blacklisted, in the hub's state at
\* the time of the query, whatever was computed or published before.
C2_AvailableIsCurrentHubState ==
    \A t \in TagMacs :
        event = <<"available", t>> =>
            (avail_result <=> (online /\ t \in tags /\ t \notin blacklist))

\* The query answers false for an entity whose last written state was
\* available.
C2_Witness ==
    \E t \in TagMacs :
        /\ event = <<"available", t>>
        /\ ~avail_result
        /\ published[t] = "available"

\* C3: the access point "ap" never gets an image entity, neither from the
\* startup enumeration nor from a tag-discovered notification.
C3_NoEntityForAccessPoint ==
    /\ add_calls[AP] = 0
    /\ entity[AP] = "absent"
    /\ AP \notin added_entities

\* The access point was in hub.tags at setup and is then announced while it
\* is not blacklisted.
C3_Witness ==
    /\ AP \in setup_skipped
    /\ event = <<"tag_discovered", AP>>
    /\ setup_pc = "loaded"
    /\ AP \notin blacklist

\* C4: a tag-discovered notification for an identifier already in the
\* tracking set registers no entity and leaves the tracking set and the
\* entities as they were, whatever the blacklist and the hub's state.
C4_TrackedAddIsNoOp ==
    [][\A t \in TagMacs :
          (t \in added_entities /\ event' = <<"tag_discovered", t>>) =>
              /\ add_calls' = add_calls
              /\ added_entities' = added_entities
              /\ entity' = entity]_vars

\* A tracked identifier is announced while the callback is connected and the
\* identifier is blacklisted.
C4_Witness ==
    \E t \in TagMacs :
        /\ event = <<"tag_discovered", t>>
        /\ setup_pc = "loaded"
        /\ t \in added_entities
        /\ t \in blacklist
        /\ add_calls[t] = 1

\* C5: an identifier that is in hub.tags and blacklisted when setup runs has
\* no entity after setup; once it is off the blacklist, a tag-discovered
\* notification delivered for it while the entry is loaded creates its one
\* entity.
C5_BlacklistedAtSetupCreatedOnDiscovery ==
    /\ [](event = <<"async_setup_entry", "">> =>
            \A t \in tags \cap blacklist :
                add_calls[t] = 0 /\ entity[t] = "absent")
    /\ [][\A t \in TagMacs \ {AP} :
            (/\ t \in setup_skipped
             /\ add_calls[t] = 0
             /\ setup_pc = "loaded"
             /\ t \notin blacklist
             /\ event' = <<"tag_discovered", t>>) =>
                /\ add_calls'[t] = 1
                /\ entity'[t] = "pending"
                /\ t \in added_entities']_vars

\* A tag skipped at setup has its entity right after being announced.
C5_Witness ==
    \E t \in TagMacs \ {AP} :
        /\ t \in setup_skipped
        /\ event = <<"tag_discovered", t>>
        /\ add_calls[t] = 1
        /\ entity[t] = "pending"

\* C6: a detached entity has none of its connections left in the
\* dispatcher, and no notification makes it write its state.
C6_DetachedEntityIsSilent ==
    \A t \in TagMacs :
        entity[t] = "removed" => (wrote[t] = 0 /\ Connections(t) = {})

\* A notification of each global topic, or of the entity's image topic, is
\* sent after the entity was detached.
C6_Witness ==
    \E t \in TagMacs :
        /\ entity[t] = "removed"
        /\ event \in {<<"blacklist_update", "">>, <<"connection_status", "">>,
                       <<"image_update", t>>}

\* C7: right after async_setup_entry, the identifiers with an entity are
\* exactly those of hub.tags that are not "ap" and not blacklisted, each with
\* one entity.
C7_SetupRegistersExactlyEligible ==
    event = <<"async_setup_entry", "">> =>
        \A t \in TagMacs :
            IF t \in tags /\ Eligible(t)
            THEN add_calls[t] = 1 /\ entity[t] = "pending"
                 /\ t \in added_entities
            ELSE add_calls[t] = 0 /\ entity[t] = "absent"
                 /\ t \notin added_entities

\* Setup ran on a hub that knows the access point, an eligible tag and a
\* blacklisted tag.
C7_Witness ==
    /\ event = <<"async_setup_entry", "">>
    /\ tags = TagMacs
    /\ blacklist = {"t2"}

\* C8: no step of this component detaches an attached entity or drops its
\* connections; a blacklist-update notification only makes it write its
\* current availability, unavailable while blacklisted and available again
\* once off the blacklist with the hub online and the tag known.
C8_BlacklistingNeverRemoves ==
    /\ [][\A t \in TagMacs :
            (entity[t] = "attached" /\ event' # <<"remove", t>>) =>
                /\ entity'[t] = "attached"
                /\ Connections(t) \subseteq dispatcher'
                /\ on_remove'[t] = on_remove[t]]_vars
    /\ [](\A t \in TagMacs :
            (entity[t] = "attached" /\ event = <<"blacklist_update", "">>) =>
                /\ Cardinality(Connections(t)) = 3
                /\ published[t] = AvailableText(t)
                /\ (t \in blacklist => published[t] = "unavailable"))

\* An entity whose tag is blacklisted has written unavailable on the
\* blacklist-update notification and is still attached.
C8_Witness ==
    \E t \in TagMacs :
        /\ entity[t] = "attached"
        /\ event = <<"blacklist_update", "">>
        /\ t \in blacklist
        /\ published[t] = "unavailable"
        /\ Cardinality(Connections(t)) = 3

\* C9: an attached entity writes its state once on an image-updated
\* notification for its own identifier, on a connection-status notification
\* and on a blacklist-update notification, and not at all on an
\* image-updated notification for another identifier.
C9_OneWritePerNotification ==
    \A t \in TagMacs :
        entity[t] = "attached" =>
            /\ event = <<"image_update", t>> => wrote[t] = 1
            /\ event = <<"connection_status", "">> => wrote[t] = 1
            /\ event = <<"blacklist_update", "">> => wrote[t] = 1
            /\ (event[1] = "image_update" /\ event[2] # t) => wrote[t] = 0

\* Two entities are attached and an image-updated notification for one of
\* them is delivered.
C9_Witness ==
    /\ entity["t1"] = "attached"
    /\ entity["t2"] = "attached"
    /\ event = <<"image_update", "t2">>
    /\ wrote["t2"] = 1
    /\ wrote["t1"] = 0

\* C10: an async_image call made while no file is at the entity's image path
\* returns None, logs nothing and hands no read to the executor.
C10_MissingFileGivesNone ==
    \A t \in TagMacs :
        (event = <<"async_image", t>> /\ files[image_path[t]] = "absent") =>
            /\ img_return[t] = "None"
            /\ logged = 0
            /\ img_pc[t] = "idle"
            /\ job_result[t] = "none"

\* async_image was called for a tag whose file is missing, after a read had
\* been made by an earlier call.
C10_Witness ==
    /\ event = <<"async_image", "t1">>
    /\ files[image_path["t1"]] = "absent"
    /\ img_return["t1"] = "None"
    /\ <<"open_read", "executor">> \in fs_ops

\* C11: when the read of an existing file fails with an OSError, async_image
\* logs one error and returns None; the error does not reach the caller.
C11_ReadErrorLoggedAndNone ==
    [][\A t \in TagMacs :
          (job_result[t] = "OSError" /\ event' = <<"async_image_return", t>>) =>
              /\ img_return'[t] = "None"
              /\ logged' = 1
              /\ img_pc'[t] = "idle"]_vars

\* A call returned None with one error logged, the file being there but
\* unreadable.
C11_Witness ==
    \E t \in TagMacs :
        /\ event = <<"async_image_return", t>>
        /\ files[image_path[t]] = "unreadable"
        /\ img_return[t] = "None"
        /\ logged = 1

\* C12: the executor's read of a file present and readable yields the bytes
\* the file holds, and async_image returns exactly what the read yielded,
\* logging nothing.
C12_ReturnsFileBytes ==
    /\ [](\A t \in TagMacs :
            (event = <<"executor_job", t>>
             /\ files[image_path[t]] \in ImageBytes) =>
                job_result[t] = files[image_path[t]])
    /\ [][\A t \in TagMacs :
            (job_result[t] \in ImageBytes
             /\ event' = <<"async_image_return", t>>) =>
                img_return'[t] = job_result[t] /\ logged' = 0]_vars

\* A call returned the second image, which the file still holds.
C12_Witness ==
    \E t \in TagMacs :
        /\ event = <<"async_image_return", t>>
        /\ img_return[t] = "img2"
        /\ files[image_path[t]] = "img2"

\* C13: the entities handed to the host and the tracking set change only in
\* async_setup_entry or in the delivery of a tag-discovered notification; a
\* change of the blacklist and a blacklist-update notification create no
\* entity and leave the tracking set as it was.
C13_CreationOnlyOnSetupOrDiscovery ==
    [][/\ (\/ add_calls' # add_calls
            \/ added_entities' # added_entities
            \/ \E t \in TagMacs : entity[t] = "absent" /\ entity'[t] # "absent")
           => (event' = <<"async_setup_entry", "">>
               \/ event'[1] = "tag_discovered")
       /\ event' \in {<<"hub", "">>, <<"blacklist_update", "">>}
           => (add_calls' = add_calls /\ added_entities' = added_entities
               /\ entity' = entity)]_vars

\* A tag skipped at setup is off the blacklist and known to the hub, the
\* blacklist-update notification was delivered while the entry is loaded,
\* and the tag has no entity.
C13_Witness ==
    \E t \in TagMacs \ {AP} :
        /\ event = <<"blacklist_update", "">>
        /\ setup_pc = "loaded"
        /\ t \in setup_skipped
        /\ t \in tags
        /\ t \notin blacklist
        /\ entity[t] = "absent"
        /\ add_calls[t] = 0

\* C14: under any interleaving of file changes with async_image calls, a
\* call never raises and returns None or the bytes the executor read from
\* the file; a read that finds the file deleted after the existence check
\* ends in None; and whatever earlier calls returned, a call made while the
\* file is present hands the read to the executor, whose read of a readable
\* file is what the call returns.
C14_NoStickyFailure ==
    /\ [](\A t \in TagMacs :
            img_return[t] \in {"not_called", "pending", "None"} \cup ImageBytes)
    /\ [][\A t \in TagMacs :
            /\ (event' = <<"async_image", t>>
                 /\ files[GetImagePath(ImageKey(t))] # "absent") =>
                    (img_pc'[t] = "executor" /\ img_return'[t] = "pending")
            /\ (event' = <<"executor_job", t>>
                 /\ files[image_path[t]] = "absent") =>
                    job_result'[t] = "OSError"
            /\ event' = <<"async_image_return", t>> =>
                    /\ img_pc'[t] = "idle"
                    /\ img_return'[t] =
                           IF job_result[t] \in ImageBytes
                           THEN job_result[t] ELSE "None"]_vars

\* A call that had returned None is followed by a call that returns the
\* bytes of the file.
C14_Witness ==
    \E t \in TagMacs :
        /\ event = <<"async_image_return", t>>
        /\ img_return[t] \in ImageBytes
        /\ img_return[t] = files[image_path[t]]
        /\ returned_none[t]

\* C15: every file-system operation of async_image runs in the executor,
\* none on the event loop.
C15_NoFileSystemOpOnEventLoop ==
    \A op \in fs_ops : op[2] = "executor"

\* C16: once the connection-status or the blacklist-update notification is
\* delivered, the availability an attached entity last wrote to the host is
\* its current availability; and a written availability that is current
\* stays current through every step that is not a change of the hub.
C16_PublishedFollowsHub ==
    /\ [](\A t \in TagMacs :
            (entity[t] = "attached"
             /\ event \in {<<"connection_status", "">>,
                            <<"blacklist_update", "">>}) =>
                published[t] = AvailableText(t))
    /\ [][\A t \in TagMacs :
            (entity[t] = "attached"
             /\ published[t] = AvailableText(t)
             /\ event' # <<"hub", "">>) =>
                published'[t] = AvailableText(t)']_vars

\* The hub is offline, the connection-status notification was delivered and
\* an entity whose tag is known and not blacklisted has written unavailable.
C16_Witness ==
    \E t \in TagMacs :
        /\ entity[t] = "attached"
        /\ event = <<"connection_status", "">>
        /\ ~online
        /\ t \in tags
        /\ t \notin blacklist
        /\ published[t] = "unavailable"

\* C17: the image path of an entity is unset until its first async_image
\* call, which resolves it from the key of the entity's identifier; every
\* later call, whatever the earlier ones returned, resolves nothing and
\* leaves the path as it is, and no other step changes a path.
C17_PathResolvedOnce ==
    /\ [](\A t \in TagMacs :
            img_return[t] = "not_called" => image_path[t] = None)
    /\ [][\A t \in TagMacs :
            /\ event' = <<"async_image", t>> =>
                   /\ image_path'[t] = GetImagePath(ImageKey(t))
                   /\ resolved' = IF image_path[t] = None THEN 1 ELSE 0
            /\ image_path[t] # None => image_path'[t] = image_path[t]]_vars

\* A call on an entity that had returned None before and whose path was
\* already resolved: the call resolved nothing.
C17_Witness ==
    \E t \in TagMacs :
        /\ event = <<"async_image", t>>
        /\ resolved = 0
        /\ returned_none[t]
        /\ img_pc[t] = "executor"
        /\ image_path[t] = GetImagePath(ImageKey(t))

\* C18: in every reachable state the tracking set holds exactly the
\* identifiers for which an entity was handed to async_add_entities; an
\* identifier skipped as "ap" or as blacklisted is not in it.
C18_TrackingSetIsRegisteredSet ==
    added_entities = {t \in TagMacs : add_calls[t] > 0}

\* A blacklisted tag was announced while another tag has its entity: the
\* announced tag is not tracked.
C18_Witness ==
    \E t \in TagMacs \ {AP} :
        /\ event = <<"tag_discovered", t>>
        /\ setup_pc = "loaded"
        /\ t \in blacklist
        /\ t \notin added_entities
        /\ added_entities # {}

\* C19: once the entry's unload handlers have run, the registrar's callback
\* is no longer connected, and no step, a tag-discovered notification
\* included, creates an entity or changes the tracking set.
C19_UnloadReleasesDiscovery ==
    /\ [](setup_pc = "unloaded" =>
            \A c \in dispatcher : c[2] # TargetAddImageEntity)
    /\ [][setup_pc = "unloaded" =>
            /\ add_calls' = add_calls
            /\ added_entities' = added_entities
            /\ \A t \in TagMacs : entity[t] = "absent" => entity'[t] = "absent"]_vars

\* After unload, a known tag that is eligible and has no entity is
\* announced and still has none.
C19_Witness ==
    \E t \in TagMacs \ {AP} :
        /\ setup_pc = "unloaded"
        /\ event = <<"tag_discovered", t>>
        /\ t \in tags
        /\ t \notin blacklist
        /\ t \notin added_entities
        /\ entity[t] = "absent"

====
